---- MODULE Spec2Model ----
(***************************************************************************)
(* Agent control loop of browser_use (agent/service.py), together with     *)
(* the dispatch path it drives (controller/service.py, agent/views.py).    *)
(*                                                                         *)
(* One Agent object is modelled.  run() is a for-loop over step(); step()  *)
(* is split at its phase boundaries (snapshot, decision-maker call,        *)
(* dispatch, recording), which are the only points where control leaves    *)
(* the agent.  The decision-maker, the browser driver and the action       *)
(* handlers are the environment: their results are drawn from small sets.  *)
(*                                                                         *)
(* Four further components are modelled beside the loop, each with a       *)
(* specification of its own in which the rest stays as constructed:        *)
(*   SpecDispatch  Controller.act called directly (controller/service.py)  *)
(*   SpecDom       DomService.get_clickable_elements (dom/service.py)      *)
(*   SpecCap       DomService._cap_text_length, _get_essential_attributes  *)
(*   SpecRegistry  Action.register and DynamicActions.combine_actions      *)
(*                 (agent/views.py)                                        *)
(***************************************************************************)
EXTENDS Naturals, Integers, Sequences, FiniteSets, TLC

VARIABLES
    llm,                  \* self.llm: the decision-maker the agent was built with
    controller_injected,  \* self.controller_injected
    max_failures,         \* self.max_failures
    history,              \* self.history: list[AgentHistory]
    n_steps,              \* self.n_steps
    consecutive_failures, \* self.consecutive_failures
    messages,             \* self.messages (one tag per message)
    browser_closed,       \* number of controller.browser.close() calls made by run()
    pc,                   \* position inside run()/step()
    max_steps,            \* argument of the current run()
    iter,                 \* loop variable `step` of run(): iterations completed
    state,                \* local `state` of step(): the snapshot (browser._cached_state)
    model_output,         \* local `model_output` of step()
    result,               \* local `result` of step()
    termination,          \* the way the last run() left its loop
    runs,                 \* number of run() calls started
    steps_run,            \* steps begun by the current run()
    hist0,                \* len(history) when the current run() was called
    cf_before,            \* consecutive_failures when the current step began
    handler_calls,        \* action handlers invoked in the current step
    driver_clicks,        \* clicks the driver performed in the current step
    fault,                \* kind of fault that arose in the current step
    response,             \* what the decision-maker returned in the current step
    slept                 \* seconds step() spent in time.sleep() in the current step

\* A Controller driven directly through Controller.act (no agent around it)
VARIABLES
    d_pc,                 \* "ready": a snapshot is cached; "returned": act() has returned
    d_selector_map,       \* keys of browser._cached_state.selector_map
    d_action,             \* the action passed to act(): its populated fields
    d_env,                \* what the driver and the handler did during the call
    d_result,             \* the ActionResult act() returned
    d_click_calls,        \* calls of the driver's click made during the call
    d_type_calls,         \* calls of browser._input_text_by_xpath made during the call
    d_call                \* the dispatch entry point called: "act" or "execute"

\* A DomService flattening the page its driver shows
VARIABLES
    page,                 \* the page: its nodes under <body>, in document order
    has_body,             \* the page has a <body> (soup.body is not None)
    dom_pc,               \* "idle", "loop" (inside the while), "returned", "raised"
    soup,                 \* nodes still in the parsed tree (not decomposed)
    dom_queue,            \* local dom_queue: (element, path_indices) pairs, top last
    output_items,         \* local output_items
    dom_selector_map,     \* local selector_map
    current_index,        \* local current_index
    passes,               \* calls of get_clickable_elements() that have returned
    first_pass,           \* what the first of these calls returned
    pushed,               \* nodes put on dom_queue during the call, in order
    popped                \* nodes taken from dom_queue during the call, in order

\* _cap_text_length applied to one text, _get_essential_attributes to one element
VARIABLES
    cap_pc,               \* "ready", "done" or "attrs_done"
    cap_text,             \* argument text
    cap_out,              \* the string returned
    cap_attrs,            \* element.attrs of the argument element
    cap_attr_out          \* the attr="value" pairs returned, in order

\* The class-level registries and the Agents set up against them
VARIABLES
    _actions,             \* Action._actions: names of the registered custom actions
    _cached_model,        \* DynamicActions._cached_model: its fields, once created
    _custom_actions,      \* DynamicActions._custom_actions: its keys
    agents                \* the Agents constructed so far, oldest first

agentVars == << llm, controller_injected, max_failures, history, n_steps,
                consecutive_failures, messages, browser_closed, pc, max_steps,
                iter, state, model_output, result, termination, runs, steps_run,
                hist0, cf_before, handler_calls, driver_clicks, fault, response,
                slept >>

dispatchVars == << d_pc, d_selector_map, d_action, d_env, d_result, d_click_calls,
                   d_type_calls, d_call >>

domVars == << page, has_body, dom_pc, soup, dom_queue, output_items,
              dom_selector_map, current_index, passes, first_pass,
              pushed, popped >>

capVars == << cap_pc, cap_text, cap_out, cap_attrs, cap_attr_out >>

registryVars == << _actions, _cached_model, _custom_actions, agents >>

\* everything that is not a field or a local of the Agent
outsideAgent == << dispatchVars, domVars, capVars, registryVars >>

\* the frame of each of the other components
outsideDispatch == << agentVars, domVars, capVars, registryVars >>
outsideDom == << agentVars, dispatchVars, capVars, registryVars >>
outsideCap == << agentVars, dispatchVars, domVars, registryVars >>
outsideRegistry == << agentVars, dispatchVars, domVars, capVars >>

vars == << agentVars, outsideAgent >>

----------------------------------------------------------------------------
(* Bounds of the model *)

\* steps granted over all its runs to an agent whose decision-maker is unconstrained
MaxHistory == 2
\* steps granted over all its runs to an agent whose decision-maker is scripted
MaxStubSteps == 4
\* largest max_failures given to the constructor
MaxFailuresBound == 3
\* run() calls per agent
MaxRuns == 2
\* interactive items of the page (keys of the selector map)
MaxItems == 1
\* largest num_clicks of a click_element request
MaxClicks == 2

----------------------------------------------------------------------------
(* Action schema: the fields of DynamicActions, in model field order        *)
(* (controller fields first, then the custom actions).                      *)

ControllerFields == << "click_element", "input_text", "done" >>

CustomFields == << "save_job_to_file" >>

FieldOrder == ControllerFields \o CustomFields

Range(s) == { s[i] : i \in 1..Len(s) }

Fields == Range(FieldOrder)

\* a response's action: the set of fields that are populated (not None);
\* every field is Optional, so any set of fields can come back
Requests == SUBSET Fields

\* the fields the decision-maker of the agent loop populates (input_text is
\* exercised through Controller.act alone)
LoopFields == Fields \ { "input_text" }

None == "None"

\* an optional object (such as `DynamicOutput | None`, or a local not yet
\* assigned): << >> is None, << x >> holds the object x
Absent == << >>
Present(x) == << x >>

\* AgentError constants and the other messages an ActionResult.error can hold
VALIDATION_ERROR == "Invalid model output format"
RATE_LIMIT_ERROR == "Rate limit reached"
NO_VALID_ACTION == "No valid action found"
UNKNOWN_ERROR == "Unknown error"
HANDLER_ERROR == "str(e)"

\* exception classes the decision-maker call can raise
ErrorTypes == { "ValidationError", "RateLimitError", "ValueError", "Exception" }

\* ActionResult(is_done=False, extracted_content=None, error=None)
ActionResult(content, error) ==
    [ is_done |-> FALSE, extracted_content |-> content, error |-> error ]

----------------------------------------------------------------------------
(* Dispatch: DynamicActions, Controller.act, CustomAction.execute           *)

\* DynamicActions.is_controller_action: some controller field is not None
is_controller_action(action) ==
    \E i \in 1..Len(ControllerFields) : ControllerFields[i] \in action

\* DynamicActions.is_custom_action: some custom field is not None
is_custom_action(action) ==
    \E i \in 1..Len(CustomFields) : CustomFields[i] \in action

\* first entry of `order` that is populated in `action` (the loops over
\* model_dump().items() and over _custom_actions.items() stop at the first)
FirstPopulated(action, order) ==
    LET idx == { i \in 1..Len(order) : order[i] \in action }
    IN  order[CHOOSE i \in idx : \A j \in idx : i <= j]

\* DynamicActions.get_custom_action_and_params
get_custom_action_and_params(action) == FirstPopulated(action, CustomFields)

\* What the environment does during one dispatch to the handler `name`: the
\* request's parameters and the behaviour of the driver and of the custom
\* function.
\*   index, num_clicks : parameters of click_element; index also of input_text
\*   fail_at           : the click at which the driver raises (0: never);
\*                       for input_text, 1 when the driver raises while typing
\*   text              : parameter of done and of input_text
\*   ret               : what the custom function does
Envs(name) ==
    CASE name = "click_element" ->
            [ index : 0..MaxItems, num_clicks : 1..MaxClicks, fail_at : 0..MaxClicks,
              text : {""}, ret : {None} ]
      [] name = "input_text" ->
            [ index : 0..MaxItems, num_clicks : {1}, fail_at : {0, 1},
              text : {"text"}, ret : {None} ]
      [] name = "done" ->
            [ index : {0}, num_clicks : {1}, fail_at : {0},
              text : {"", "text"}, ret : {None} ]
      [] OTHER ->
            [ index : {0}, num_clicks : {1}, fail_at : {0},
              text : {""}, ret : {"raise", None, "text"} ]

\* outcome of a handler call
Returned(value, clicks) == [ raised |-> FALSE, value |-> value, clicks |-> clicks ]
Raised(clicks) == [ raised |-> TRUE, value |-> None, clicks |-> clicks ]

\* clicks performed by the loop `for _ in range(num_clicks)`, which breaks
\* at the first click the driver refuses
ClicksDone(num_clicks, fail_at) ==
    IF fail_at >= 1 /\ fail_at <= num_clicks THEN fail_at - 1 ELSE num_clicks

\* handler click_element
click_element(env, selector_map) ==
    IF env.index \notin selector_map
    THEN Raised(0)
    ELSE Returned(None, ClicksDone(env.num_clicks, env.fail_at))

\* input_text without the lookup of the index in the selector map
input_text_Unchecked(env, selector_map) ==
    IF env.fail_at = 1 THEN Raised(0) ELSE Returned(None, 0)

\* handler input_text: the exception of browser._input_text_by_xpath is not caught
input_text(env, selector_map) ==
    IF env.index \notin selector_map
    THEN Raised(0)
    ELSE IF env.fail_at = 1 THEN Raised(0) ELSE Returned(None, 0)

\* calls of the driver's click made by click_element: the loop stops after
\* the call that raises
ClickCalls(name, env, selector_map) ==
    IF name = "click_element" /\ env.index \in selector_map
    THEN IF env.fail_at >= 1 /\ env.fail_at <= env.num_clicks
         THEN env.fail_at
         ELSE env.num_clicks
    ELSE 0

\* calls of browser._input_text_by_xpath made by input_text
TypeCalls(name, env, selector_map) ==
    IF name = "input_text" /\ env.index \in selector_map THEN 1 ELSE 0

\* handler done
done(env) == Returned(env.text, 0)

\* a custom function registered with Action.register
custom_function(env) ==
    IF env.ret = "raise" THEN Raised(0) ELSE Returned(env.ret, 0)

\* Registry.execute_action: look the action up by name and call its handler
execute_action(action_name, env, selector_map) ==
    CASE action_name = "click_element" -> click_element(env, selector_map)
      [] action_name = "input_text" -> input_text(env, selector_map)
      [] action_name = "done" -> done(env)
      [] OTHER -> Raised(0)

\* `str(result) if result else None`: None and '' are falsy
ExtractedContent(value) == IF value \in {None, ""} THEN None ELSE value

\* an except clause that lets every fault of the handler through
Caught_Nothing(out) == FALSE

\* `except Exception as e`: every fault a handler raises is caught
Caught(out) == out.raised

\* the call propagates the handler's fault to its caller
Escapes(out) == out.raised /\ ~Caught(out)

\* the try/except that wraps a handler call into an ActionResult
WrapOutcome(out) ==
    IF Caught(out)
    THEN ActionResult(None, HANDLER_ERROR)
    ELSE ActionResult(ExtractedContent(out.value), None)

\* the handler call Controller.act makes for `action` (none when no field is set)
ActCall(action, env, selector_map) ==
    execute_action(FirstPopulated(action, FieldOrder), env, selector_map)

\* Controller.act
act(action, env, selector_map) ==
    IF action = {}
    THEN ActionResult(None, None)
    ELSE WrapOutcome(ActCall(action, env, selector_map))

\* CustomAction.execute
execute(env) == WrapOutcome(custom_function(env))

\* Agent._execute_action: which branch is taken
Branch(action) ==
    IF is_controller_action(action) THEN "controller"
    ELSE IF is_custom_action(action) THEN "custom"
    ELSE "raise"

\* Agent._execute_action: the ActionResult returned (branches that return)
_execute_action(action, env, selector_map) ==
    IF Branch(action) = "controller"
    THEN act(action, env, selector_map)
    ELSE execute(env)

\* the handler _execute_action ends up calling
HandlerName(action) ==
    IF Branch(action) = "controller"
    THEN FirstPopulated(action, FieldOrder)
    ELSE get_custom_action_and_params(action)

\* the handler outcome behind _execute_action's result
HandlerOutcome(action, env, selector_map) ==
    IF Branch(action) = "controller"
    THEN ActCall(action, env, selector_map)
    ELSE custom_function(env)

\* the driver refused a click inside click_element's loop
ClickRefused(action, env, selector_map) ==
    /\ Branch(action) = "controller"
    /\ FirstPopulated(action, FieldOrder) = "click_element"
    /\ env.index \in selector_map
    /\ env.fail_at >= 1
    /\ env.fail_at <= env.num_clicks

----------------------------------------------------------------------------
(* Agent._handle_step_error                                                 *)

\* isinstance with the subclass relation the wrong way round
IsInstance_Reversed(error, cls) ==
    \/ error = cls
    \/ cls = "Exception"
    \/ error = "ValueError" /\ cls = "ValidationError"

\* isinstance(error, cls); pydantic's ValidationError derives from ValueError
IsInstance(error, cls) ==
    \/ error = cls
    \/ cls = "Exception"
    \/ error = "ValidationError" /\ cls = "ValueError"

\* the error message chosen by the isinstance chain
ErrorMessage(error) ==
    IF IsInstance(error, "ValidationError") THEN VALIDATION_ERROR
    ELSE IF IsInstance(error, "RateLimitError") THEN RATE_LIMIT_ERROR
    ELSE IF IsInstance(error, "ValueError") THEN NO_VALID_ACTION
    ELSE UNKNOWN_ERROR

\* a branch of _handle_step_error that forgets to count the failure
FailuresAfterError_NotCounted(cf) == cf

\* a branch of _handle_step_error that counts the failure twice
FailuresAfterError_Twice(cf) == cf + 2

\* consecutive_failures after _handle_step_error (every branch adds one)
FailuresAfterError(cf) == cf + 1

\* default of the constructor's retry_delay (seconds)
retry_delay == 10

\* a rate-limit branch that does not wait
SleepAfterError_NoDelay(error) == 0

\* seconds _handle_step_error sleeps: only the RateLimitError branch waits
SleepAfterError(error) ==
    IF IsInstance(error, "ValidationError") THEN 0
    ELSE IF IsInstance(error, "RateLimitError") THEN retry_delay
    ELSE 0

\* Agent._handle_step_error: the ActionResult it returns
_handle_step_error(error) == ActionResult(None, ErrorMessage(error))

\* Agent._update_messages_with_result
_update_messages_with_result(msgs, res) ==
    LET m1 == IF res.extracted_content # None THEN Append(msgs, "content") ELSE msgs
    IN  IF res.error # None THEN Append(m1, "error") ELSE m1

\* default of the constructor's use_vision
use_vision == TRUE

\* controller.get_current_state(screenshot): the snapshot carries a
\* screenshot when one was asked for
get_current_state(screenshot) ==
    [ selector_map |-> 0..(MaxItems - 1), screenshot |-> screenshot ]

\* AgentMessagePrompt.get_user_message: the rendering of the snapshot sent to
\* the decision-maker, with the screenshot as image_url when there is one
get_user_message(st) == IF st.screenshot THEN "state+image" ELSE "state"

\* AgentMessagePrompt.get_message_for_history: 'Step url: ...', text only
get_message_for_history(st) == "step_url"

\* get_next_action: input_messages = self.messages + [new_message]
input_messages(msgs, st) == Append(msgs, get_user_message(st))

\* a history that keeps the message that was sent to the decision-maker
_update_message_history_Sent(msgs, st) ==
    Append(Append(msgs, get_user_message(st)), "ai")

\* Agent._update_message_history: the two entries appended per response
_update_message_history(msgs, st) ==
    Append(Append(msgs, get_message_for_history(st)), "ai")

\* AgentHistory(model_output=..., result=..., state=...)
AgentHistory(mo, res, st) == [ model_output |-> mo, result |-> res, state |-> st ]

\* a history that keeps only the record of the latest step
_make_history_item_Overwrite(h, mo, res, st) == << AgentHistory(mo, res, st) >>

\* Agent._make_history_item: the history after the new record is appended
_make_history_item(h, mo, res, st) == Append(h, AgentHistory(mo, res, st))

\* _too_many_failures with > for >=
_too_many_failures_Strict == consecutive_failures > max_failures

\* Agent._too_many_failures
_too_many_failures == consecutive_failures >= max_failures

\* Agent._is_task_complete, on the history passed in
_is_task_complete(h) == Len(h) > 0 /\ h[Len(h)].result.is_done

\* responses the decision-maker can give
Responses ==
    CASE llm = "always_zero" -> { {} }
      [] llm = "always_done" -> { {"done"} }
      [] OTHER -> SUBSET LoopFields

----------------------------------------------------------------------------
(* State after Agent.__init__                                               *)

\* a controller on which act() is not being called
DispatchIdle ==
    /\ d_pc = "ready"
    /\ d_selector_map = {}
    /\ d_action = {}
    /\ d_env = Absent
    /\ d_result = Absent
    /\ d_click_calls = 0
    /\ d_type_calls = 0
    /\ d_call = None

\* a DomService that has not been asked for a snapshot
DomIdle ==
    /\ page = << >>
    /\ has_body = TRUE
    /\ dom_pc = "idle"
    /\ soup = {}
    /\ dom_queue = << >>
    /\ output_items = << >>
    /\ dom_selector_map = << >>
    /\ current_index = 0
    /\ passes = 0
    /\ first_pass = Absent
    /\ pushed = << >>
    /\ popped = << >>

\* no text is being capped
CapIdle ==
    /\ cap_pc = "ready"
    /\ cap_text = << >>
    /\ cap_out = Absent
    /\ cap_attrs = << >>
    /\ cap_attr_out = Absent

\* the registries as the class bodies leave them
RegistryIdle ==
    /\ _actions = {}
    /\ _cached_model = Absent
    /\ _custom_actions = {}
    /\ agents = << >>

InitAgent ==
    /\ llm \in {"any", "always_zero", "always_done"}
    /\ controller_injected \in BOOLEAN
    /\ max_failures \in 0..MaxFailuresBound
    /\ history = << >>
    /\ n_steps = 1
    /\ consecutive_failures = 0
    /\ messages = << "system", "task" >>
    /\ browser_closed = 0
    /\ pc = "idle"
    /\ max_steps = 0
    /\ iter = 0
    /\ state = Absent
    /\ model_output = Absent
    /\ result = Absent
    /\ termination = None
    /\ runs = 0
    /\ steps_run = 0
    /\ hist0 = 0
    /\ cf_before = 0
    /\ handler_calls = 0
    /\ driver_clicks = 0
    /\ fault = None
    /\ response = Absent
    /\ slept = 0

\* the agent loop is studied with nothing else going on
Init ==
    /\ InitAgent
    /\ DispatchIdle
    /\ DomIdle
    /\ CapIdle
    /\ RegistryIdle

\* the fields fixed by the constructor
UNCHANGED_config == UNCHANGED << llm, controller_injected, max_failures >>

\* a `finally` that closes the browser of every controller
Finally_CloseAny(reason) ==
    /\ pc' = "idle"
    /\ termination' = reason
    /\ browser_closed' = browser_closed + 1

\* the `finally` of run(): close the browser of a controller the agent made
Finally(reason) ==
    /\ pc' = "idle"
    /\ termination' = reason
    /\ browser_closed' = IF controller_injected THEN browser_closed ELSE browser_closed + 1

\* the values of max_steps tried for this agent
StepBudgets ==
    0..((IF llm = "any" THEN MaxHistory ELSE MaxStubSteps) - Len(history))

\* run(max_steps) is called
RunCall ==
    /\ pc = "idle"
    /\ runs < MaxRuns
    /\ \E ms \in StepBudgets : max_steps' = ms
    /\ iter' = 0
    /\ pc' = "loop"
    /\ termination' = None
    /\ runs' = runs + 1
    /\ steps_run' = 0
    /\ hist0' = Len(history)
    /\ UNCHANGED_config
    /\ UNCHANGED outsideAgent
    /\ UNCHANGED << history, n_steps, consecutive_failures, messages, browser_closed,
                    state, model_output, result, cf_before, handler_calls,
                    driver_clicks, fault, slept, response >>

\* a loop that runs one iteration too many
InRange_OffByOne(i, ms) == i <= ms

\* `for step in range(max_steps)`: the loop variable is still in the range
InRange(i, ms) == i < ms

\* the loop of run(), an iteration begins: the range is exhausted
\* (for-else), or _too_many_failures() breaks, or step() is called
LoopExhausted ==
    /\ pc = "loop"
    /\ ~ InRange(iter, max_steps)
    /\ Finally("MaxSteps")
    /\ UNCHANGED_config
    /\ UNCHANGED outsideAgent
    /\ UNCHANGED << history, n_steps, consecutive_failures, messages, max_steps, iter,
                    state, model_output, result, runs, steps_run, hist0, cf_before,
                    handler_calls, driver_clicks, fault, slept, response >>

LoopTooManyFailures ==
    /\ pc = "loop"
    /\ InRange(iter, max_steps)
    /\ _too_many_failures
    /\ Finally("MaxFailures")
    /\ UNCHANGED_config
    /\ UNCHANGED outsideAgent
    /\ UNCHANGED << history, n_steps, consecutive_failures, messages, max_steps, iter,
                    state, model_output, result, runs, steps_run, hist0, cf_before,
                    handler_calls, driver_clicks, fault, slept, response >>

LoopStep ==
    /\ pc = "loop"
    /\ InRange(iter, max_steps)
    /\ ~ _too_many_failures
    /\ pc' = "observing"
    /\ steps_run' = steps_run + 1
    /\ cf_before' = consecutive_failures
    /\ UNCHANGED_config
    /\ UNCHANGED outsideAgent
    /\ UNCHANGED << history, n_steps, consecutive_failures, messages, browser_closed,
                    max_steps, iter, state, model_output, result, termination, runs,
                    hist0, handler_calls, driver_clicks, fault, slept, response >>

\* a step() that returns after the dispatch without recording it
PhaseAfter_Unrecorded(phase) ==
    CASE phase = "observing" -> "deciding"
      [] phase = "deciding" -> "acting"
      [] phase = "acting" -> "loop"

\* the statements of step() in the order they are written: the snapshot,
\* get_next_action, _execute_action, then the two updates that record
PhaseAfter(phase) ==
    CASE phase = "observing" -> "deciding"
      [] phase = "deciding" -> "acting"
      [] phase = "acting" -> "recording"

\* step(): controller.get_current_state() returns a snapshot
Observe ==
    /\ pc = "observing"
    /\ state' = Present(get_current_state(use_vision))
    /\ pc' = PhaseAfter("observing")
    /\ UNCHANGED_config
    /\ UNCHANGED outsideAgent
    /\ UNCHANGED << history, n_steps, consecutive_failures, messages, browser_closed,
                    max_steps, iter, model_output, result, termination, runs,
                    steps_run, hist0, cf_before, handler_calls, driver_clicks, fault, slept,
                    response >>

\* a step() that counts the exception of get_current_state() as a failure
ObserveRaise_Counted ==
    /\ pc = "observing"
    /\ Finally("Exception")
    /\ consecutive_failures' = FailuresAfterError(consecutive_failures)
    /\ UNCHANGED_config
    /\ UNCHANGED outsideAgent
    /\ UNCHANGED << history, n_steps, messages, max_steps, iter,
                    state, model_output, result, runs, steps_run, hist0, cf_before,
                    handler_calls, driver_clicks, fault, slept, response >>

\* step(): controller.get_current_state() raises; the exception leaves
\* step() and run()
ObserveRaise ==
    /\ pc = "observing"
    /\ Finally("Exception")
    /\ UNCHANGED_config
    /\ UNCHANGED outsideAgent
    /\ UNCHANGED << history, n_steps, consecutive_failures, messages, max_steps, iter,
                    state, model_output, result, runs, steps_run, hist0, cf_before,
                    handler_calls, driver_clicks, fault, slept, response >>

\* get_next_action(): the decision-maker returns a response
Decide ==
    /\ pc = "deciding"
    /\ \E r \in Responses :
          /\ model_output' = Present(r)
          /\ response' = Present(r)
    /\ messages' = _update_message_history(messages, state[1])
    /\ n_steps' = n_steps + 1
    /\ pc' = PhaseAfter("deciding")
    /\ UNCHANGED_config
    /\ UNCHANGED outsideAgent
    /\ UNCHANGED << history, consecutive_failures, browser_closed, max_steps, iter,
                    state, result, termination, runs, steps_run, hist0, cf_before,
                    handler_calls, driver_clicks, fault, slept >>

\* an except branch that leaves model_output as the try block set it
ModelOutputAfterError_Kept(mo) == mo

\* the except branch of step(): `model_output = None`
ModelOutputAfterError(mo) == Absent

\* get_next_action(): the decision-maker call raises; step() handles it
DecideRaise ==
    /\ pc = "deciding"
    /\ llm = "any"
    /\ \E e \in ErrorTypes :
          /\ result' = Present(_handle_step_error(e))
          /\ fault' = e
          /\ slept' = SleepAfterError(e)
    /\ consecutive_failures' = FailuresAfterError(consecutive_failures)
    /\ model_output' = ModelOutputAfterError(model_output)
    /\ pc' = "recording"
    /\ UNCHANGED_config
    /\ UNCHANGED outsideAgent
    /\ UNCHANGED << history, n_steps, messages, browser_closed, max_steps, iter,
                    state, termination, runs, steps_run, hist0, cf_before,
                    handler_calls, driver_clicks, response >>

\* _execute_action() finds no populated field and raises ValueError;
\* step() handles it
ActNoAction ==
    /\ pc = "acting"
    /\ Branch(model_output[1]) = "raise"
    /\ result' = Present(_handle_step_error("ValueError"))
    /\ fault' = "no_action"
    /\ slept' = SleepAfterError("ValueError")
    /\ consecutive_failures' = FailuresAfterError(consecutive_failures)
    /\ model_output' = ModelOutputAfterError(model_output)
    /\ pc' = "recording"
    /\ UNCHANGED_config
    /\ UNCHANGED outsideAgent
    /\ UNCHANGED << history, n_steps, messages, browser_closed, max_steps, iter,
                    state, termination, runs, steps_run, hist0, cf_before,
                    handler_calls, driver_clicks, response >>

\* consecutive_failures after _execute_action() returned (the line under `# Success`)
FailuresAfterReturn(cf, res) == 0

\* a dispatch that calls the handler of every populated field
HandlersInvoked_All(action) == Cardinality(action)

\* handlers called by one dispatch: act() returns from inside its loop at
\* the first populated field, execute() calls the one registered function
HandlersInvoked(action) == 1

\* _execute_action() dispatches to a handler and returns its ActionResult
Act ==
    /\ pc = "acting"
    /\ Branch(model_output[1]) # "raise"
    /\ \E env \in Envs(HandlerName(model_output[1])) :
          LET out == HandlerOutcome(model_output[1], env, state[1].selector_map)
              res == _execute_action(model_output[1], env, state[1].selector_map)
          IN  /\ result' = Present(res)
              /\ handler_calls' = handler_calls + HandlersInvoked(model_output[1])
              /\ driver_clicks' = driver_clicks + out.clicks
              /\ fault' = IF out.raised THEN "handler"
                          ELSE IF ClickRefused(model_output[1], env, state[1].selector_map)
                               THEN "driver"
                          ELSE None
              /\ consecutive_failures' = FailuresAfterReturn(consecutive_failures, res)
    /\ pc' = PhaseAfter("acting")
    /\ UNCHANGED_config
    /\ UNCHANGED outsideAgent
    /\ UNCHANGED << history, n_steps, messages, browser_closed, max_steps, iter,
                    state, model_output, termination, runs, steps_run, hist0,
                    cf_before, response, slept >>

\* end of step(): the messages and the history are updated; back in run(),
\* _is_task_complete() breaks the loop or the next iteration begins
Record ==
    /\ pc = "recording"
    /\ messages' = _update_messages_with_result(messages, result[1])
    /\ history' = _make_history_item(history, model_output, result[1], state[1])
    /\ IF _is_task_complete(history')
       THEN /\ Finally("DoneAction")
            /\ iter' = iter
       ELSE /\ pc' = "loop"
            /\ iter' = iter + 1
            /\ UNCHANGED << termination, browser_closed >>
    /\ model_output' = Absent
    /\ result' = Absent
    /\ handler_calls' = 0
    /\ driver_clicks' = 0
    /\ fault' = None
    /\ response' = Absent
    /\ slept' = 0
    /\ UNCHANGED_config
    /\ UNCHANGED outsideAgent
    /\ UNCHANGED << n_steps, consecutive_failures, max_steps, state, runs, steps_run,
                    hist0, cf_before >>

Next ==
    \/ RunCall
    \/ LoopExhausted
    \/ LoopTooManyFailures
    \/ LoopStep
    \/ Observe
    \/ ObserveRaise
    \/ Decide
    \/ DecideRaise
    \/ ActNoAction
    \/ Act
    \/ Record

Spec == Init /\ [][Next]_vars

\* run() is scheduled until it returns: every step of the loop is taken
FairSpec == Spec /\ WF_vars(Next)

----------------------------------------------------------------------------
(* Controller.act called directly on a controller                           *)

\* an agent that has been constructed and is never run
AgentIdle ==
    /\ InitAgent
    /\ llm = "any"
    /\ controller_injected
    /\ max_failures = MaxFailuresBound

\* selector maps a snapshot can carry: the indices of its interactive items
SelectorMaps == { 0..(n - 1) : n \in 0..MaxItems }

InitDispatch ==
    /\ AgentIdle
    /\ DomIdle
    /\ CapIdle
    /\ RegistryIdle
    /\ d_pc = "ready"
    /\ d_selector_map \in SelectorMaps
    /\ d_action = {}
    /\ d_env = Absent
    /\ d_result = Absent
    /\ d_click_calls = 0
    /\ d_type_calls = 0
    /\ d_call = None

\* the handler environments of a call of act(action); no handler runs for an
\* action with no populated field
ActEnvs(action) ==
    IF action = {}
    THEN { [ index |-> 0, num_clicks |-> 1, fail_at |-> 0, text |-> "", ret |-> None ] }
    ELSE Envs(FirstPopulated(action, FieldOrder))

\* Controller.act(action) runs against the cached snapshot and returns
ControllerAct ==
    /\ d_pc = "ready"
    /\ \E action \in Requests : \E env \in ActEnvs(action) :
          LET name == IF action = {} THEN None ELSE FirstPopulated(action, FieldOrder)
          IN  /\ d_action' = action
              /\ d_env' = Present(env)
              /\ d_result' = Present(act(action, env, d_selector_map))
              /\ d_click_calls' = ClickCalls(name, env, d_selector_map)
              /\ d_type_calls' = TypeCalls(name, env, d_selector_map)
              /\ d_pc' = IF action # {} /\ Escapes(ActCall(action, env, d_selector_map))
                         THEN "raised"
                         ELSE "returned"
    /\ d_call' = "act"
    /\ UNCHANGED << outsideDispatch, d_selector_map >>

\* CustomAction.execute(params) calls the registered function and returns
CustomExecute ==
    /\ d_pc = "ready"
    /\ \E name \in Range(CustomFields) : \E env \in Envs(name) :
          /\ d_action' = { name }
          /\ d_env' = Present(env)
          /\ d_result' = Present(execute(env))
          /\ d_pc' = IF Escapes(custom_function(env)) THEN "raised" ELSE "returned"
    /\ d_call' = "execute"
    /\ d_click_calls' = 0
    /\ d_type_calls' = 0
    /\ UNCHANGED << outsideDispatch, d_selector_map >>

\* browser.get_state(): a new snapshot replaces the cached one
NewSnapshot ==
    /\ d_pc \in { "returned", "raised" }
    /\ d_selector_map' \in SelectorMaps
    /\ d_pc' = "ready"
    /\ d_action' = {}
    /\ d_env' = Absent
    /\ d_result' = Absent
    /\ d_click_calls' = 0
    /\ d_type_calls' = 0
    /\ d_call' = None
    /\ UNCHANGED outsideDispatch

NextDispatch ==
    \/ ControllerAct
    \/ CustomExecute
    \/ NewSnapshot

SpecDispatch == InitDispatch /\ [][NextDispatch]_vars

TypeOK ==
    /\ pc \in {"idle", "loop", "observing", "deciding", "acting", "recording"}
    /\ consecutive_failures \in Nat
    /\ n_steps \in Nat
    /\ iter \in 0..(MaxStubSteps + MaxHistory)

----------------------------------------------------------------------------
(* Properties of the control loop                                           *)

\* the step's outcome is computed and about to be recorded
StepOutcomeReady == pc = "recording"

\* the record of a step that dispatched the done handler
DoneDispatched(rec) ==
    /\ rec.model_output # Absent
    /\ Branch(rec.model_output[1]) # "raise"
    /\ HandlerName(rec.model_output[1]) = "done"

\* the first run() of the agent has ended by returning the history
FirstRunReturned ==
    /\ runs = 1
    /\ pc = "idle"
    /\ termination \notin {None, "Exception"}

\* C1: when a step's outcome has its error set, consecutive_failures is one
\* more than before the step; when it has no error, consecutive_failures is 0.
C1_FailureCountFollowsOutcome ==
    StepOutcomeReady =>
        IF result[1].error # None
        THEN consecutive_failures = cf_before + 1
        ELSE consecutive_failures = 0

\* C2: after a step that dispatched the done action, run() begins no further
\* step: no step of a run is in progress while the run's latest record is
\* that of a done dispatch.
C2_NoStepAfterDone ==
    (pc \in {"observing", "deciding", "acting", "recording"} /\ Len(history) > hist0)
        => ~ DoneDispatched(history[Len(history)])

\* C3: a response with two or more populated fields is rejected: the outcome
\* carries an error, no handler is invoked and the step counts as a failure.
C3_MultipleFieldsRejected ==
    (StepOutcomeReady /\ response # Absent /\ Cardinality(response[1]) >= 2)
        => /\ result[1].error # None
           /\ handler_calls = 0
           /\ consecutive_failures = cf_before + 1

\* C4: a response with zero populated fields is rejected: the outcome carries
\* an error, no handler is invoked and consecutive_failures grows by one.
C4_ZeroFieldsRejected ==
    (StepOutcomeReady /\ response = Present({}))
        => /\ result[1].error # None
           /\ handler_calls = 0
           /\ consecutive_failures = cf_before + 1

C4_Witness ==
    /\ StepOutcomeReady
    /\ response = Present({})
    /\ result[1].error = NO_VALID_ACTION
    /\ cf_before = 1
    /\ consecutive_failures = 2

C6_DoneRunAsClaimed ==
    (FirstRunReturned /\ llm = "always_done" /\ max_failures >= 1 /\ max_steps = 1)
        => /\ Len(history) = 1
           /\ termination = "DoneAction"

\* C7: no step of run() is under way (snapshot, decision-maker call or
\* dispatch) while consecutive_failures has reached max_failures.
C7_NoStepAtFailureBudget ==
    pc \in {"observing", "deciding", "acting"} => consecutive_failures < max_failures

C7_Witness ==
    /\ pc = "idle"
    /\ termination = "MaxFailures"
    /\ max_failures >= 1
    /\ consecutive_failures >= max_failures
    /\ steps_run >= 1
    /\ InRange(iter, max_steps)

\* C8: run(max_steps) begins at most max_steps steps and appends at most
\* max_steps records, and every run() that was called ends: the agent is
\* again and again outside run().
C8_RunBounded ==
    /\ [](steps_run <= max_steps /\ Len(history) <= hist0 + max_steps)
    /\ []<>(pc = "idle")

C8_Witness ==
    /\ pc = "idle"
    /\ termination = "MaxSteps"
    /\ llm = "any"
    /\ max_steps = 2
    /\ steps_run = 2
    /\ Len(history) = hist0 + 2

\* C9: every fault that arises while deciding or acting in a step is caught
\* and leaves a failed record: the outcome about to be recorded has its
\* error set.
C9_FaultsRecordedAsFailures ==
    (StepOutcomeReady /\ fault # None) => result[1].error # None

\* C10: when the driver refuses a click inside click_element, the outcome of
\* the step has its error set.
C10_DriverFaultIsFailure ==
    (StepOutcomeReady /\ fault = "driver" /\ driver_clicks = 0) => result[1].error # None

----------------------------------------------------------------------------
(* Controller.act: stale indices                                            *)

\* act() has returned from a request whose first populated field is `name`
ActReturnedFrom(name) ==
    /\ d_pc = "returned"
    /\ d_call = "act"
    /\ d_action # {}
    /\ FirstPopulated(d_action, FieldOrder) = name

\* the request named an index that is not a key of the cached selector map
StaleIndex == d_env[1].index \notin d_selector_map

\* C11: click_element and input_text called with an index that is not a
\* key of the snapshot's selector map give an ActionResult with its error
\* set, and the driver is asked for no click and no typing.
C11_StaleIndexRejected ==
    (/\ ActReturnedFrom("click_element") \/ ActReturnedFrom("input_text")
     /\ StaleIndex)
    => /\ d_result[1].error # None
       /\ d_result[1].extracted_content = None
       /\ d_click_calls = 0
       /\ d_type_calls = 0

\* input_text was asked to type into an index beyond a non-empty selector map
C11_Witness ==
    /\ ActReturnedFrom("input_text")
    /\ d_selector_map # {}
    /\ StaleIndex
    /\ d_result[1].error = HANDLER_ERROR

----------------------------------------------------------------------------
(* Rate limiting                                                            *)

\* the decision-maker call of the current step raised RateLimitError and
\* step() has handled it
RateLimited == pc = "recording" /\ fault = "RateLimitError"

\* the latest step of the current run was recorded with the rate-limit error
LastStepRateLimited ==
    /\ Len(history) > hist0
    /\ history[Len(history)].result.error = RATE_LIMIT_ERROR

----------------------------------------------------------------------------
(* History and run state across steps and runs                              *)

\* C18: history is an append-only log: it changes only when a step
\* completes, the step then puts exactly one record (snapshot, action or
\* none, outcome) at the end, and the records already there stay as they
\* were and where they were; in a run, one record per completed step.
C18_HistoryAppendOnly ==
    /\ [][/\ history' # history => pc = "recording"
          /\ pc = "recording" =>
                /\ Len(history') = Len(history) + 1
                /\ SubSeq(history', 1, Len(history)) = history
                /\ history'[Len(history')] =
                      [ model_output |-> model_output, result |-> result[1],
                        state |-> state[1] ]]_vars
    /\ [](pc = "loop" => Len(history) = hist0 + steps_run)

\* two steps have completed and left two different records
C18_Witness ==
    /\ pc = "loop"
    /\ Len(history) = 2
    /\ history[1] # history[2]

\* C19: run() called on an agent whose previous run left
\* consecutive_failures at the failure budget starts the new run with
\* consecutive_failures = 0 (and so can execute steps again).
C19_RunStateReset ==
    [][(/\ pc = "idle"
        /\ pc' = "loop"
        /\ runs >= 1
        /\ consecutive_failures >= max_failures)
       => consecutive_failures' = 0]_vars

----------------------------------------------------------------------------
(* DomService: the page and the parsed tree                                 *)

\* nodes under <body> of the pages tried
MaxNodes == 3
\* calls of get_clickable_elements() made on the same page
MaxPasses == 2

\* a NavigableString
TEXT == "#text"

\* tags of the elements tried: an interactive one, a container, a rejected one
ElementTags == { "a", "div", "svg" }

\* _is_element_accepted: leaf_element_deny_list
leaf_element_deny_list == { "svg", "iframe", "script", "style", "link", "meta" }

\* _is_interactive_element: interactive_elements
interactive_elements ==
    { "a", "button", "details", "embed", "input", "label", "menu", "menuitem",
      "object", "select", "textarea", "summary" }

\* values tried for the `disabled` attribute of an element
DisabledValues == { FALSE }

\* answers tried for the topmost query about an element
TopAnswers == { TRUE }

\* A node of the page.  depth is 1 for a child of <body>.  visible and top
\* are what the browser answers about the node (checkVisibility, and for a
\* text node whether its rectangle is non-empty and on screen); disabled is
\* an attribute.  Every text node carries the same non-blank string.
NodeRecords ==
    { n \in [ tag : ElementTags \cup { TEXT }, depth : 1..MaxNodes,
              visible : BOOLEAN, top : TopAnswers, disabled : DisabledValues ] :
        /\ n.tag \in leaf_element_deny_list => n.visible
        /\ n.tag = TEXT => (n.top /\ ~ n.disabled) }

\* p lists the nodes of a tree in document order: a node is at most one
\* level below the node before it, a text node has no children, and the
\* parser never leaves two text nodes next to each other
WellFormed(p) ==
    \A i \in 1..Len(p) :
        /\ p[i].depth <= (IF i = 1 THEN 1
                          ELSE IF p[i - 1].tag = TEXT THEN p[i - 1].depth
                          ELSE p[i - 1].depth + 1)
        /\ (i > 1 /\ p[i].tag = TEXT /\ p[i - 1].tag = TEXT)
              => p[i].depth # p[i - 1].depth

Pages ==
    UNION { { p \in [ 1..n -> NodeRecords ] : WellFormed(p) } : n \in 0..MaxNodes }

Min(S) == CHOOSE x \in S : \A y \in S : x <= y

Max(S) == CHOOSE x \in S : \A y \in S : x >= y

RECURSIVE SortedSeq(_)
\* the members of a set of nodes in document order
SortedSeq(S) ==
    IF S = {} THEN << >> ELSE << Min(S) >> \o SortedSeq(S \ { Min(S) })

\* children pushed in document order, so that the last one is popped first
Reverse_Not(s) == s

\* reversed(list(...))
Reverse(s) == [ k \in 1..Len(s) |-> s[Len(s) + 1 - k] ]

\* element.parent; 0 stands for <body>
ParentOf(i) ==
    IF page[i].depth = 1
    THEN 0
    ELSE Max({ j \in 1..(i - 1) : page[j].depth = page[i].depth - 1 })

\* element.descendants, whether still in the tree or not
Descendants(i) ==
    { j \in (i + 1)..Len(page) :
        \A k \in (i + 1)..j : page[k].depth > page[i].depth }

\* list(element.children) within the tree `tree`
ChildrenOf(i, tree) == SortedSeq({ j \in tree : ParentOf(j) = i })

RECURSIVE NodeEq(_, _)
\* a == b as list.index and `in` evaluate it: Tag.__eq__ compares name,
\* attributes and contents, str.__eq__ compares the characters
NodeEq(i, j) ==
    \/ i = j
    \/ /\ page[i].tag = TEXT
       /\ page[j].tag = TEXT
    \/ /\ page[i].tag # TEXT
       /\ page[i].tag = page[j].tag
       /\ page[i].disabled = page[j].disabled
       /\ LET ci == ChildrenOf(i, soup)
              cj == ChildrenOf(j, soup)
          IN  /\ Len(ci) = Len(cj)
              /\ \A k \in 1..Len(ci) : NodeEq(ci[k], cj[k])

\* BeautifulSoup(html_content, 'html.parser') keeping the tree of the last pass
BeautifulSoup_Reused == IF passes = 0 THEN 1..Len(page) ELSE soup

\* BeautifulSoup(html_content, 'html.parser'): a fresh tree with every node of the page
BeautifulSoup == 1..Len(page)

\* the building of dom_queue without the test of soup.body
InitialQueue_Unguarded(tree) ==
    IF has_body
    THEN [ raised |-> FALSE,
           queue |-> Reverse([ k \in 1..Len(ChildrenOf(0, tree)) |->
                                 [ node |-> ChildrenOf(0, tree)[k], path |-> << >>,
                                   current_xpath |-> Absent ] ]) ]
    ELSE [ raised |-> TRUE, queue |-> << >> ]

\* dom_queue as first built: the children of <body>, the first one on top;
\* empty when there is no <body>
InitialQueue(tree) ==
    IF has_body
    THEN [ raised |-> FALSE,
           queue |-> Reverse([ k \in 1..Len(ChildrenOf(0, tree)) |->
                                 [ node |-> ChildrenOf(0, tree)[k], path |-> << >>,
                                   current_xpath |-> Absent ] ]) ]
    ELSE [ raised |-> FALSE, queue |-> << >> ]

----------------------------------------------------------------------------
(* DomService: classification, location paths, the oracle                   *)

\* a filter that accepts every element
_is_element_accepted_All(i) == TRUE

_is_element_accepted(i) == page[i].tag \notin leaf_element_deny_list

_is_interactive_element(i) == page[i].tag \in interactive_elements

\* _is_leaf_element: there is text below, and the element has no child or
\* its only child is a string
_is_leaf_element(i) ==
    /\ \E j \in Descendants(i) \cap soup : page[j].tag = TEXT
    /\ LET children == ChildrenOf(i, soup)
       IN  Len(children) = 1 /\ page[children[1]].tag = TEXT

_is_active(i) == ~ page[i].disabled

\* siblings.index(element) + 1: the place, among the children of the parent
\* with the same tag, of the first one that == element
sibling_index(i) ==
    LET siblings == SortedSeq({ j \in soup :
                                  ParentOf(j) = ParentOf(i) /\ page[j].tag = page[i].tag })
    IN  Min({ k \in 1..Len(siblings) : NodeEq(siblings[k], i) })

\* current_path: a location path is kept as its (tag, index) steps;
\* element_xpath is '//' followed by the steps tag[index] joined by '/'
current_path(path_indices, i) ==
    Append(path_indices, << page[i].tag, sibling_index(i) >>)

\* the place of an element among the same-tag children of its parent in the page
PositionInPage(n) ==
    Cardinality({ j \in 1..n : ParentOf(j) = ParentOf(n) /\ page[j].tag = page[n].tag })

RECURSIVE MatchesPath(_, _, _)
\* element n is selected by the first k steps of `path`: '//' lets the
\* first step start under any node, each further step is a child step
MatchesPath(n, path, k) ==
    /\ page[n].tag = path[k][1]
    /\ PositionInPage(n) = path[k][2]
    /\ \/ k = 1
       \/ /\ ParentOf(n) # 0
          /\ MatchesPath(ParentOf(n), path, k - 1)

\* the element the browser finds for a location path (the first match in
\* document order), 0 if there is none
Resolve(path) ==
    LET found == { n \in 1..Len(page) : page[n].tag # TEXT /\ MatchesPath(n, path, Len(path)) }
    IN  IF found = {} THEN 0 ELSE Min(found)

\* _is_top_element(element, xpath): the script looks the element up by xpath
_is_top_element(path) == Resolve(path) # 0 /\ page[Resolve(path)].top

\* _is_visible(element, xpath) for a Tag without an id: looked up by xpath
_is_visible(path) == Resolve(path) # 0 /\ page[Resolve(path)].visible

\* document.evaluate("{parent_xpath}", ...) of the text query: the f-string
\* writes an xpath of None as the expression None, a child step from the
\* document to an element <None>, which selects nothing
ResolveParent(parent_xpath) ==
    IF parent_xpath = Absent THEN 0 ELSE Resolve(parent_xpath[1])

\* _is_text_visible(element, parent_xpath): false when the script finds no
\* parent, else the rectangle of the text is non-empty and on screen and the
\* parent found passes checkVisibility
_is_text_visible(i, parent_xpath) ==
    /\ ResolveParent(parent_xpath) # 0
    /\ page[i].visible
    /\ page[ResolveParent(parent_xpath)].visible

\* the strings get_text() collects below element d
GetText(d) == SortedSeq({ j \in Descendants(d) \cap soup : page[j].tag = TEXT })

RECURSIVE Concat(_)
Concat(ss) == IF ss = << >> THEN << >> ELSE ss[1] \o Concat(Tail(ss))

\* _extract_text_from_all_children: one piece per descendant, a string
\* itself or get_text() of a tag; the text is kept as the list of the text
\* nodes it was taken from
_extract_text_from_all_children(i) ==
    LET ds == SortedSeq(Descendants(i) \cap soup)
    IN  Concat([ k \in 1..Len(ds) |->
                   IF page[ds[k]].tag = TEXT THEN << ds[k] >> ELSE GetText(ds[k]) ])

\* DomContentItem; `node` remembers the node the item was emitted for
DomContentItem(index, text, clickable, depth, node) ==
    [ index |-> index, text |-> text, clickable |-> clickable, depth |-> depth,
      node |-> node ]

\* an element item that does not advance the index
IndexAfterElement_Kept(i) == i

\* current_index after an element item was appended
IndexAfterElement(i) == i + 1

\* current_index after a text item was appended
IndexAfterText(i) == i + 1

\* `element.parent in [e[0] for e in dom_queue]`
ParentInQueue(i, queue) ==
    /\ ParentOf(i) # 0
    /\ \E k \in 1..Len(queue) : NodeEq(queue[k].node, ParentOf(i))

\* ProcessedDomContent(items=output_items, selector_map=selector_map)
ProcessedDomContent == [ items |-> output_items, selector_map |-> dom_selector_map ]

----------------------------------------------------------------------------
(* DomService.get_clickable_elements / _process_content                     *)

InitDom ==
    /\ AgentIdle
    /\ DispatchIdle
    /\ CapIdle
    /\ RegistryIdle
    /\ page \in Pages
    /\ has_body \in BOOLEAN
    /\ ~ has_body => page = << >>
    /\ dom_pc = "idle"
    /\ soup = {}
    /\ dom_queue = << >>
    /\ output_items = << >>
    /\ dom_selector_map = << >>
    /\ current_index = 0
    /\ passes = 0
    /\ first_pass = Absent
    /\ pushed = << >>
    /\ popped = << >>

\* get_clickable_elements() is called: the page source is parsed and the
\* locals of _process_content are set up
GetClickableElements ==
    /\ dom_pc \in { "idle", "returned" }
    /\ passes < MaxPasses
    /\ soup' = BeautifulSoup
    /\ LET q == InitialQueue(soup')
       IN  /\ dom_queue' = q.queue
           /\ dom_pc' = IF q.raised THEN "raised" ELSE "loop"
    /\ output_items' = << >>
    /\ dom_selector_map' = << >>
    /\ current_index' = 0
    /\ pushed' = Reverse([ k \in 1..Len(dom_queue') |-> dom_queue'[k].node ])
    /\ popped' = << >>
    /\ UNCHANGED << page, has_body, passes, first_pass >>
    /\ UNCHANGED outsideDom

\* the entry on top of dom_queue
Top == dom_queue[Len(dom_queue)]

\* a pop that leaves the entry on the queue
Below_Kept == dom_queue

\* dom_queue.pop(): the queue below the top entry
Below == SubSeq(dom_queue, 1, Len(dom_queue) - 1)

\* an element with a tag of the deny list is popped: it is decomposed
PopRejected ==
    /\ dom_pc = "loop"
    /\ dom_queue # << >>
    /\ page[Top.node].tag # TEXT
    /\ ~ _is_element_accepted(Top.node)
    /\ soup' = soup \ ({ Top.node } \cup Descendants(Top.node))
    /\ dom_queue' = Below
    /\ popped' = Append(popped, Top.node)
    /\ UNCHANGED << page, has_body, dom_pc, output_items, dom_selector_map,
                    current_index, passes, first_pass, pushed >>
    /\ UNCHANGED outsideDom

\* an accepted element is popped: its children are pushed, and it is
\* emitted if it is interactive or a leaf, active, topmost and visible
PopElement ==
    /\ dom_pc = "loop"
    /\ dom_queue # << >>
    /\ page[Top.node].tag # TEXT
    /\ _is_element_accepted(Top.node)
    /\ LET element == Top.node
           path == current_path(Top.path, element)
           children == ChildrenOf(element, soup)
           emitted == /\ _is_interactive_element(element) \/ _is_leaf_element(element)
                      /\ _is_active(element)
                      /\ _is_top_element(path)
                      /\ _is_visible(path)
       IN  /\ dom_queue' = Below \o Reverse([ k \in 1..Len(children) |->
                                               [ node |-> children[k], path |-> path,
                                                 current_xpath |-> Absent ] ])
           /\ IF emitted
              THEN /\ output_items' =
                        Append(output_items,
                               DomContentItem(current_index,
                                              _extract_text_from_all_children(element),
                                              TRUE, Len(path), element))
                   /\ dom_selector_map' = (current_index :> path) @@ dom_selector_map
                   /\ current_index' = IndexAfterElement(current_index)
              ELSE UNCHANGED << output_items, dom_selector_map, current_index >>
           /\ pushed' = pushed \o children
    /\ popped' = Append(popped, Top.node)
    /\ UNCHANGED << page, has_body, dom_pc, soup, passes, first_pass >>
    /\ UNCHANGED outsideDom

\* a string is popped: it is emitted if it is visible and its parent is
\* not found in the queue
PopText ==
    /\ dom_pc = "loop"
    /\ dom_queue # << >>
    /\ page[Top.node].tag = TEXT
    /\ IF _is_text_visible(Top.node, Top.current_xpath) /\ ~ ParentInQueue(Top.node, Below)
       THEN /\ output_items' =
                 Append(output_items,
                        DomContentItem(current_index, << Top.node >>, FALSE,
                                       Len(Top.path), Top.node))
            /\ current_index' = IndexAfterText(current_index)
       ELSE UNCHANGED << output_items, current_index >>
    /\ dom_queue' = Below
    /\ popped' = Append(popped, Top.node)
    /\ UNCHANGED << page, has_body, dom_pc, soup, dom_selector_map, passes, first_pass,
                    pushed >>
    /\ UNCHANGED outsideDom

\* the queue is empty: _process_content returns the snapshot
ReturnSnapshot ==
    /\ dom_pc = "loop"
    /\ dom_queue = << >>
    /\ dom_pc' = "returned"
    /\ passes' = passes + 1
    /\ first_pass' = IF passes = 0 THEN Present(ProcessedDomContent) ELSE first_pass
    /\ UNCHANGED << page, has_body, soup, dom_queue, output_items, dom_selector_map,
                    current_index, pushed, popped >>
    /\ UNCHANGED outsideDom

NextDom ==
    \/ GetClickableElements
    \/ PopRejected
    \/ PopElement
    \/ PopText
    \/ ReturnSnapshot

SpecDom == InitDom /\ [][NextDom]_vars

----------------------------------------------------------------------------
(* DomService: snapshots                                                    *)

\* get_clickable_elements() has returned a snapshot
SnapshotReturned == dom_pc = "returned"

\* C13: in every snapshot, whatever the tree and the answers of the
\* visibility oracle, the i-th item carries index i: the indices are dense,
\* start at zero and run on across element items and text items.
C13_DenseIndices ==
    /\ \A k \in 1..Len(output_items) : output_items[k].index = k - 1
    /\ current_index = Len(output_items)

\* a snapshot with an interactive element followed by a leaf element
C13_Witness ==
    /\ SnapshotReturned
    /\ Len(output_items) >= 2
    /\ _is_interactive_element(output_items[1].node)
    /\ ~ _is_interactive_element(output_items[2].node)
    /\ output_items[2].index = 1

\* C14: the location path recorded for an item, evaluated on the unchanged
\* page, finds the element the item was emitted for and no other.
C14_PathResolvesToItsElement ==
    \A k \in DOMAIN dom_selector_map :
        Resolve(dom_selector_map[k]) = output_items[k + 1].node

\* C15: a second call on the unchanged page, with the same answers of the
\* oracle, returns the items and the selector map of the first call.
C15_SecondPassIdentical ==
    (SnapshotReturned /\ passes >= 2) => ProcessedDomContent = first_pass[1]

\* a second snapshot of a page in which the first pass decomposed a node
\* below an element it emitted
C15_Witness ==
    /\ SnapshotReturned
    /\ passes = 2
    /\ output_items # << >>
    /\ \E k \in 1..Len(output_items) :
          Descendants(output_items[k].node) \ soup # {}

\* C17: for a page without <body>, or with a <body> that has no children,
\* the call raises nothing and returns no item and an empty selector map.
C17_EmptyBodyEmptySnapshot ==
    (~ has_body \/ page = << >>)
    => /\ dom_pc # "raised"
       /\ SnapshotReturned => (output_items = << >> /\ dom_selector_map = << >>)

\* a snapshot was returned for a page without <body>
C17_Witness ==
    /\ SnapshotReturned
    /\ ~ has_body
    /\ ProcessedDomContent = [ items |-> << >>, selector_map |-> << >> ]

----------------------------------------------------------------------------
(* DomService._cap_text_length                                              *)

\* default of the parameter max_length
max_length == 150
\* how far beyond max_length the texts tried go
MaxTextOver == 2

\* the marker '...': a character of a text is written as its position in
\* the text (1, 2, ...), the character '.' of the marker as 0
ELLIPSIS == << 0, 0, 0 >>

\* the texts tried: one of every length up to max_length + MaxTextOver
Texts == { [ i \in 1..n |-> i ] : n \in 0..(max_length + MaxTextOver) }

\* text[:n]
SliceTo(text, n) == SubSeq(text, 1, IF n < Len(text) THEN n ELSE Len(text))

\* text[-n:]; text[-0:] is the whole text
SliceLast(text, n) ==
    IF n = 0 \/ n >= Len(text) THEN text ELSE SubSeq(text, Len(text) - n + 1, Len(text))

\* DomService._cap_text_length(text, max_length)
_cap_text_length(text, max) ==
    IF Len(text) > max
    THEN LET half_length == max \div 2
         IN  SliceTo(text, half_length) \o ELLIPSIS \o SliceLast(text, half_length)
    ELSE text

\* the slice [:50] applied to the values of the essential attributes
attr_cap == 50
\* how far beyond attr_cap the attribute values tried go
MaxAttrOver == 1

\* the entries of essential_attributes tried, in the order of the list:
\* one with a string value and the multi-valued class
essential_attributes == << "id", "class" >>

\* attributes tried that start with one of state_attributes_prefixes
state_attributes == << "aria-label", "data-id" >>

\* the strings tried as attribute values: a short one, and one of every
\* length from attr_cap to attr_cap + MaxAttrOver
AttrStrings ==
    { [ i \in 1..n |-> i ] : n \in { 1 } \cup attr_cap..(attr_cap + MaxAttrOver) }

\* the values of element.attrs: a str, or for class the list of the
\* classes; parts holds the str, or the members of the list
AttrValues(name) ==
    IF name = "class"
    THEN { [ list |-> TRUE, parts |-> << s >> ] : s \in AttrStrings }
            \cup { [ list |-> TRUE, parts |-> << s, s >> ] : s \in AttrStrings }
    ELSE { [ list |-> FALSE, parts |-> << s >> ] : s \in AttrStrings }

\* element.attrs of the elements tried
ElementAttrs ==
    UNION { { f \in [ D -> UNION { AttrValues(n) : n \in D } ] :
                \A n \in D : f[n] \in AttrValues(n) } :
            D \in SUBSET (Range(essential_attributes) \cup Range(state_attributes)) }

RECURSIVE JoinSpace(_)
\* ' '.join(parts); the blank is written as 0
JoinSpace(parts) ==
    IF Len(parts) = 0 THEN << >>
    ELSE IF Len(parts) = 1 THEN parts[1]
    ELSE parts[1] \o << 0 >> \o JoinSpace(Tail(parts))

\* the value written for an essential attribute: a str is cut to attr_cap
\* characters, of a list every member is cut and the members are joined
EssentialValue(value) ==
    IF value.list
    THEN JoinSpace([ k \in 1..Len(value.parts) |-> SliceTo(value.parts[k], attr_cap) ])
    ELSE SliceTo(value.parts[1], attr_cap)

\* the value written for an aria- or data- attribute: f'{element[attr]}'
StateValue(value) == value.parts[1]

\* DomService._get_essential_attributes: the attr="value" pairs, the
\* essential attributes first, then the aria- and data- attributes
_get_essential_attributes(attrs) ==
    LET essential == SelectSeq(essential_attributes, LAMBDA n : n \in DOMAIN attrs)
        states == SelectSeq(state_attributes, LAMBDA n : n \in DOMAIN attrs)
    IN  [ k \in 1..Len(essential) |->
            [ attr |-> essential[k], value |-> EssentialValue(attrs[essential[k]]) ] ]
        \o [ k \in 1..Len(states) |->
            [ attr |-> states[k], value |-> StateValue(attrs[states[k]]) ] ]

InitCap ==
    /\ AgentIdle
    /\ DispatchIdle
    /\ DomIdle
    /\ RegistryIdle
    /\ cap_pc = "ready"
    /\ cap_text \in Texts
    /\ cap_out = Absent
    /\ cap_attrs = << >>
    /\ cap_attr_out = Absent

\* _cap_text_length(text) is called with the default max_length
CapTextLength ==
    /\ cap_pc = "ready"
    /\ cap_out' = Present(_cap_text_length(cap_text, max_length))
    /\ cap_pc' = "done"
    /\ UNCHANGED << cap_text, cap_attrs, cap_attr_out >>
    /\ UNCHANGED outsideCap

\* _get_essential_attributes(element) is called on an element
GetEssentialAttributes ==
    /\ cap_pc = "ready"
    /\ \E attrs \in ElementAttrs :
          /\ cap_attrs' = attrs
          /\ cap_attr_out' = Present(_get_essential_attributes(attrs))
    /\ cap_pc' = "attrs_done"
    /\ UNCHANGED << cap_text, cap_out >>
    /\ UNCHANGED outsideCap

NextCap ==
    \/ CapTextLength
    \/ GetEssentialAttributes

SpecCap == InitCap /\ [][NextCap]_vars

\* positions of `out` at which the marker begins
MarkerPositions(out) ==
    { k \in 1..(Len(out) - 2) : SubSeq(out, k, k + 2) = ELLIPSIS }

\* C16: a text longer than the cap comes back with length exactly the cap,
\* made of the head of the original, one marker in the middle, and the
\* tail of the original.
C16_CappedToCap ==
    (cap_pc = "done" /\ Len(cap_text) > max_length)
    => LET out == cap_out[1]
           k == Min(MarkerPositions(out))
       IN  /\ Len(out) = max_length
           /\ Cardinality(MarkerPositions(out)) = 1
           /\ SubSeq(out, 1, k - 1) = SliceTo(cap_text, k - 1)
           /\ SubSeq(out, k + 3, Len(out)) = SliceLast(cap_text, Len(out) - k - 2)

----------------------------------------------------------------------------
(* Action registry and the action model of an Agent                         *)

\* custom actions that get registered
MaxRegistered == 3
\* Agents constructed
MaxAgents == 3

\* names of functions registered with Action.register
AllCustomNames ==
    << "save_job_to_file", "calculate_area", "print_message", "add_numbers",
       "concatenate_strings" >>

CustomNames ==
    { AllCustomNames[i] : i \in 1..(IF MaxRegistered < Len(AllCustomNames)
                                   THEN MaxRegistered ELSE Len(AllCustomNames)) }

\* Action.get_registered_actions(): one CustomAction per registered name
get_registered_actions == _actions

\* the fields of the model create_model() builds
create_model(custom_actions) == Range(ControllerFields) \cup custom_actions

\* DynamicActions.combine_actions: the model it returns and the
\* _custom_actions it leaves; both are built only while nothing is cached
combine_actions(custom_actions) ==
    IF _cached_model = Absent
    THEN LET actions == IF custom_actions = {} THEN get_registered_actions
                       ELSE custom_actions
         IN  [ model |-> create_model(actions), custom |-> actions ]
    ELSE [ model |-> _cached_model[1], custom |-> _custom_actions ]

\* Agent._get_action_description: the actions the description lists
_get_action_description == Range(ControllerFields) \cup get_registered_actions

InitRegistry ==
    /\ AgentIdle
    /\ DispatchIdle
    /\ DomIdle
    /\ CapIdle
    /\ _actions = {}
    /\ _cached_model = Absent
    /\ _custom_actions = {}
    /\ agents = << >>

\* @Action.register(description) is applied to a function
Register ==
    /\ \E name \in CustomNames \ _actions : _actions' = _actions \cup { name }
    /\ UNCHANGED << _cached_model, _custom_actions, agents >>
    /\ UNCHANGED outsideRegistry

\* Agent(...) is constructed: _setup_action_models(), then the system
\* prompt with _get_action_description(); `registered` remembers the
\* registry at that time
ConstructAgent ==
    /\ Len(agents) < MaxAgents
    /\ LET combined == combine_actions(get_registered_actions)
       IN  /\ _cached_model' = Present(combined.model)
           /\ _custom_actions' = combined.custom
           /\ agents' = Append(agents, [ DynamicActions |-> combined.model,
                                         description |-> _get_action_description,
                                         registered |-> get_registered_actions ])
    /\ UNCHANGED _actions
    /\ UNCHANGED outsideRegistry

NextRegistry ==
    \/ Register
    \/ ConstructAgent

SpecRegistry == InitRegistry /\ [][NextRegistry]_vars

\* C20: the action model of every Agent has exactly the controller fields
\* and the actions registered when that Agent was set up, so every action
\* its description lists is a field of its model.
C20_SchemaHasRegisteredActions ==
    \A k \in 1..Len(agents) :
        /\ agents[k].DynamicActions = Range(ControllerFields) \cup agents[k].registered
        /\ agents[k].description \subseteq agents[k].DynamicActions

----------------------------------------------------------------------------
(* Dispatch: faults of a handler                                            *)

\* the outcome of the handler the finished dispatch called
DispatchedOutcome ==
    IF d_call = "act"
    THEN ActCall(d_action, d_env[1], d_selector_map)
    ELSE custom_function(d_env[1])

\* a dispatch that called a handler has finished
Dispatched == d_pc # "ready" /\ d_action # {}

\* C21: Controller.act and CustomAction.execute never raise. A handler that
\* returns gives an ActionResult without error whose extracted_content is
\* the returned text, or None when the handler returned None or ''; a handler
\* that raises gives an ActionResult with its error set.
C21_DispatchNeverRaises ==
    /\ d_pc # "raised"
    /\ Dispatched =>
         IF DispatchedOutcome.raised
         THEN /\ d_result[1].error # None
              /\ d_result[1].extracted_content = None
         ELSE /\ d_result[1].error = None
              /\ d_result[1].extracted_content =
                    IF DispatchedOutcome.value \in { None, "" }
                    THEN None
                    ELSE DispatchedOutcome.value

\* CustomAction.execute has returned from a function that raised
C21_Witness ==
    /\ Dispatched
    /\ d_call = "execute"
    /\ d_env[1].ret = "raise"
    /\ d_result[1].error = HANDLER_ERROR

----------------------------------------------------------------------------
(* One step of the loop: handlers, step counter, recorded model output      *)

C23_StepIndexCountsSteps ==
    pc \in { "loop", "idle" } => n_steps = 1 + Len(history)

\* error texts of a step that failed before an action was dispatched
StepErrors == { VALIDATION_ERROR, RATE_LIMIT_ERROR, NO_VALID_ACTION, UNKNOWN_ERROR }

\* C24: the model_output of a step's record is None exactly when the step
\* failed before a valid action was obtained (the decision-maker call raised
\* or the response had no populated field); a response that was dispatched
\* is recorded as it was returned, also when its ActionResult has an error.
C24_ModelOutputRecorded ==
    /\ StepOutcomeReady =>
          /\ (model_output = Absent) <=> (fault \in ErrorTypes \cup { "no_action" })
          /\ handler_calls >= 1 => (model_output # Absent /\ model_output = response)
    /\ \A i \in 1..Len(history) :
          (history[i].model_output = Absent) <=> (history[i].result.error \in StepErrors)

\* a step whose handler raised is recorded with the request it dispatched
C24_Witness ==
    /\ pc = "loop"
    /\ Len(history) >= 1
    /\ history[Len(history)].model_output = Present({ "click_element" })
    /\ history[Len(history)].result.error = HANDLER_ERROR

----------------------------------------------------------------------------
(* Order of the phases of a step                                            *)

\* the changes of phase a run may make: run() enters and leaves its loop,
\* a step goes forward through its phases (a failed decision skips the
\* dispatch), and a recorded step hands control back to the loop
PhaseSteps ==
    { << "idle", "loop" >>, << "loop", "idle" >>, << "loop", "observing" >>,
      << "observing", "deciding" >>, << "observing", "idle" >>,
      << "deciding", "acting" >>, << "deciding", "recording" >>,
      << "acting", "recording" >>,
      << "recording", "loop" >>, << "recording", "idle" >> }

\* C25: the phases of a step follow each other in the order observing,
\* deciding, acting, recording, and while a step is in one of its phases
\* every earlier step of the run has been recorded: the steps do not overlap.
C25_PhasesInOrder ==
    /\ [][ pc' # pc => << pc, pc' >> \in PhaseSteps ]_vars
    /\ [](pc \in { "observing", "deciding", "acting", "recording" }
            => Len(history) = hist0 + steps_run - 1)

\* the second step of a run begins after the first one was recorded
C25_Witness ==
    /\ pc = "observing"
    /\ steps_run = 2
    /\ Len(history) = hist0 + 1

----------------------------------------------------------------------------
(* The running transcript self.messages                                     *)

\* entries of self.messages that hold text only
TextEntries == { "system", "task", "step_url", "ai", "content", "error" }

\* the decision-maker returns a response in this step of the model
ResponseReturned == response = Absent /\ response' # Absent

\* C26: each response of the decision-maker appends exactly two entries to
\* self.messages, the text-only message for the history and then the
\* serialized reply; no entry of self.messages carries image data, also when
\* the message sent to the decision-maker carried the screenshot.
C26_TranscriptEntries ==
    /\ [][ ResponseReturned => messages' = messages \o << "step_url", "ai" >> ]_vars
    /\ [](\A i \in 1..Len(messages) : messages[i] \in TextEntries)

\* a response arrived for a message that carried the screenshot
C26_Witness ==
    /\ pc = "acting"
    /\ state[1].screenshot
    /\ input_messages(<< >>, state[1]) = << "state+image" >>
    /\ messages[Len(messages) - 1] = "step_url"
    /\ messages[Len(messages)] = "ai"

----------------------------------------------------------------------------
(* DomService: rejected elements, emitted elements                          *)

\* node i is an element with a tag of the deny list
Rejected(i) == page[i].tag \in leaf_element_deny_list

\* node i lies below an element with a tag of the deny list
InRejectedSubtree(i) ==
    \E j \in 1..Len(page) : Rejected(j) /\ i \in Descendants(j)

\* the nodes waiting in dom_queue, and the nodes items were emitted for
QueuedNodes == { dom_queue[k].node : k \in 1..Len(dom_queue) }
EmittedNodes == { output_items[k].node : k \in 1..Len(output_items) }

\* C27 as claimed: no element with a tag of the deny list and no node below
\* such an element is ever in dom_queue or emitted as an item.
C27_RejectedNeverEnqueued ==
    \A i \in QueuedNodes \cup EmittedNodes : ~ Rejected(i) /\ ~ InRejectedSubtree(i)

\* C27 as amended: an element with a tag of the deny list is put on dom_queue
\* like every other child and dropped when it is popped; no node below such
\* an element is ever in dom_queue, and neither the element nor a node below
\* it is emitted as an item.
C27_RejectedSubtreeDiscarded ==
    /\ \A i \in QueuedNodes : ~ InRejectedSubtree(i)
    /\ \A i \in EmittedNodes : ~ Rejected(i) /\ ~ InRejectedSubtree(i)

\* the traversal has returned from a page with a rejected element that has a
\* visible text below it, and the element was decomposed
C27_Witness ==
    /\ SnapshotReturned
    /\ \E i \in 1..Len(page) :
          /\ Rejected(i)
          /\ i \notin soup
          /\ \E j \in Descendants(i) : page[j].tag = TEXT /\ page[j].visible

\* C28: an element is emitted as an item only if it is interactive or a
\* leaf, it is active, and the browser finds the element itself visible and
\* topmost.
C28_EmittedOnlyIfVisibleOnTop ==
    \A i \in EmittedNodes :
        page[i].tag # TEXT =>
            /\ _is_interactive_element(i) \/ _is_leaf_element(i)
            /\ _is_active(i)
            /\ page[i].visible
            /\ page[i].top

----------------------------------------------------------------------------
(* DomService: location paths and the selector map                          *)

RECURSIVE PathInPage(_)
\* the steps (tag, k) from <body> down to element n, k being the place of
\* the element itself among the same-tag children of its parent
PathInPage(n) ==
    IF ParentOf(n) = 0
    THEN << << page[n].tag, PositionInPage(n) >> >>
    ELSE Append(PathInPage(ParentOf(n)), << page[n].tag, PositionInPage(n) >>)

\* C29: the location path recorded for an emitted element is the path of its
\* parent extended by (tag, k), k being the element's own 1-based place
\* among the children of its parent with the same tag.
C29_PathFromOwnPosition ==
    \A k \in 1..Len(output_items) :
        output_items[k].index \in DOMAIN dom_selector_map
            => dom_selector_map[output_items[k].index] = PathInPage(output_items[k].node)

\* the item was emitted for an element classified as interactive
ItemIsInteractive(it) ==
    page[it.node].tag # TEXT /\ _is_interactive_element(it.node)

\* C30: an item has an entry in selector_map, and clickable = True, exactly
\* when it was emitted for an interactive element; leaf elements that are
\* not interactive and text nodes have neither.
C30_LocationOfOnlyInteractive ==
    \A k \in 1..Len(output_items) :
        /\ (output_items[k].index \in DOMAIN dom_selector_map)
              <=> ItemIsInteractive(output_items[k])
        /\ output_items[k].clickable <=> ItemIsInteractive(output_items[k])

----------------------------------------------------------------------------
(* DomService: text nodes                                                   *)

\* node i is a string under an element, its rectangle is non-empty and on
\* screen, and its parent element passes checkVisibility
VisibleText(i) ==
    /\ page[i].tag = TEXT
    /\ ParentOf(i) # 0
    /\ page[i].visible
    /\ page[ParentOf(i)].visible

\* C31: the visibility of a text node is asked with the location path of
\* its parent element, so that a non-blank text node with a visible parent
\* and a non-empty rectangle on screen, outside every rejected subtree, is
\* emitted as an item with clickable = False.
C31_VisibleTextEmitted ==
    SnapshotReturned =>
        \A i \in 1..Len(page) :
            (VisibleText(i) /\ ~ InRejectedSubtree(i))
                => \E k \in 1..Len(output_items) :
                      output_items[k].node = i /\ ~ output_items[k].clickable

\* the entry on top of dom_queue is a visible text node whose own parent
\* is not waiting in the queue
VisibleTextOnTop ==
    /\ dom_pc = "loop"
    /\ dom_queue # << >>
    /\ VisibleText(Top.node)
    /\ \A k \in 1..Len(Below) : Below[k].node # ParentOf(Top.node)

----------------------------------------------------------------------------
(* DomService._get_essential_attributes                                     *)

\* C33: every attribute value written into the opening tag of an item is
\* cut to at most attr_cap characters, the values of the aria- and data-
\* attributes included.
C33_AttributeValuesCapped ==
    cap_pc = "attrs_done" =>
        \A k \in 1..Len(cap_attr_out[1]) : Len(cap_attr_out[1][k].value) <= attr_cap

----------------------------------------------------------------------------
(* DomService: the selector map as a function                               *)

\* C34: within one snapshot no two emitted elements have the same location
\* path, also when they are siblings with the same tag, attributes and
\* content: the selector map is injective.
C34_SelectorMapInjective ==
    \A i, j \in DOMAIN dom_selector_map :
        i # j => dom_selector_map[i] # dom_selector_map[j]

----------------------------------------------------------------------------
(* The failure counter at the step boundaries                               *)

\* C35: between the steps of run(), and when run() has returned,
\* consecutive_failures lies between 0 and max_failures.
C35_FailuresWithinBudget ==
    pc \in { "loop", "idle" } =>
        (0 <= consecutive_failures /\ consecutive_failures <= max_failures)

\* two failed steps in a row have used up a failure budget of two
C35_Witness ==
    /\ pc = "loop"
    /\ steps_run >= 2
    /\ max_failures = 2
    /\ consecutive_failures = max_failures

----------------------------------------------------------------------------
(* A snapshot that cannot be taken                                          *)

\* C36: when get_current_state() raises at the start of a step, the
\* exception leaves step() and run(), no record is appended, and
\* consecutive_failures, n_steps and self.messages stay as they were.
C36_ObserveRaiseFrame ==
    [][ (pc = "observing" /\ pc' # "deciding")
            => /\ pc' = "idle"
               /\ termination' = "Exception"
               /\ UNCHANGED << history, consecutive_failures, n_steps, messages >> ]_vars

\* the snapshot of the second step of a run could not be taken, after a
\* first step that failed
C36_Witness ==
    /\ pc = "idle"
    /\ termination = "Exception"
    /\ steps_run = 2
    /\ Len(history) = hist0 + 1
    /\ consecutive_failures = 1

----------------------------------------------------------------------------
(* Closing the browser                                                      *)

\* calls of run() that have ended, by returning or by an exception
RunsEnded == IF pc = "idle" THEN runs ELSE runs - 1

\* C37: however a run() ends, it closes the browser if the Agent made its
\* own Controller and leaves the browser of an injected Controller alone:
\* the browser was closed once per ended run, or never.
C37_BrowserClosedIffOwned ==
    browser_closed = IF controller_injected THEN 0 ELSE RunsEnded

\* an agent with its own controller whose second run ended by an exception
C37_Witness ==
    /\ pc = "idle"
    /\ ~ controller_injected
    /\ runs = 2
    /\ termination = "Exception"
    /\ browser_closed = 2

----------------------------------------------------------------------------
(* DomService: order of the items, the work queue                           *)

\* C38: the items of a snapshot are in document order: of two emitted nodes
\* the one that comes first in the page (pre-order, depth first) has the
\* smaller index.
C38_ItemsInDocumentOrder ==
    \A j, k \in 1..Len(output_items) :
        output_items[j].node < output_items[k].node
            => output_items[j].index < output_items[k].index

\* a snapshot with an element, an element below it, and then an element
\* beside the first
C38_Witness ==
    /\ SnapshotReturned
    /\ Len(output_items) = 3
    /\ output_items[2].depth = 2
    /\ output_items[3].depth = 1
    /\ output_items[1].node < output_items[2].node
    /\ output_items[2].node < output_items[3].node

\* no node occurs twice in the sequence
NoRepeat(nodes) == Cardinality(Range(nodes)) = Len(nodes)

\* C39: the traversal of a finite tree ends: every node is put on dom_queue
\* at most once and taken from it at most once, and the queue is empty when
\* the snapshot is returned.  The loop cannot go on for ever: every
\* iteration takes one more node of the page from the queue, and with the
\* queue empty the snapshot is returned.
C39_TraversalTerminates ==
    /\ [](NoRepeat(pushed) /\ NoRepeat(popped))
    /\ [](Range(popped) \subseteq Range(pushed) /\ Range(pushed) \subseteq 1..Len(page))
    /\ [](SnapshotReturned => (dom_queue = << >> /\ Range(popped) = Range(pushed)))
    /\ [][ dom_pc = "loop"
             => \/ Len(popped') = Len(popped) + 1 /\ dom_pc' = "loop"
                \/ SnapshotReturned' ]_vars

\* a snapshot was returned after three nodes, one below another, had been
\* through the queue
C39_Witness ==
    /\ SnapshotReturned
    /\ Len(popped) = 3
    /\ Len(pushed) = 3
    /\ \E i \in 1..Len(page) : page[i].depth = 3

====
